---------------------------- MODULE Spec2Model ----------------------------
(***************************************************************************)
(* dev-server.py: a socketserver.TCPServer on PORT whose handler,          *)
(* CORSRequestHandler, is http.server.SimpleHTTPRequestHandler with        *)
(* end_headers overridden (three CORS headers before the blank line) and   *)
(* do_OPTIONS added.  The server is single-threaded: serve_forever accepts *)
(* one connection, runs the handler to its end in the main thread, and     *)
(* only then selects again.  Ctrl+C raises KeyboardInterrupt in that same  *)
(* thread, wherever it is.                                                 *)
(*                                                                         *)
(* Requests are well-formed HTTP/1.x requests.  A request target is kept   *)
(* as its "/"-separated segments; file contents are sequences of chunks,   *)
(* each chunk belonging to exactly one file.  The filesystem holds plain   *)
(* files and directories (no symbolic links).                              *)
(***************************************************************************)
EXTENDS Integers, Sequences, FiniteSets

\* ------------------------------------------------------------------ bounds
MaxPathLen == 2
MaxBacklog == 2

\* --------------------------------------------------------------- constants
PORT == 8000

Methods == {"GET", "HEAD", "POST", "OPTIONS"}
Segments == {"index.html", "sub", "..", "secret.txt", "locked.txt"}

\* ------------------------------------------------------------- filesystem
\* os.chdir(Path(__file__).parent): the handler serves os.getcwd()
directory == <<"home", "app">>

Dirs == {<<>>, <<"home">>, <<"home", "app">>, <<"home", "app", "sub">>}

Files == {<<"home", "app", "index.html">>,
          <<"home", "app", "locked.txt">>,
          <<"home", "secret.txt">>}

\* files open() refuses with PermissionError
Unreadable == {<<"home", "app", "locked.txt">>}

Content(f) ==
    CASE f = <<"home", "app", "index.html">> -> <<"<h1>", "Hi", "</h1>">>
      [] f = <<"home", "app", "locked.txt">> -> <<"key">>
      [] f = <<"home", "secret.txt">> -> <<"top", "secret">>
      [] OTHER -> <<>>

ENOENT == <<"\\0">>

\* str() of a length
LenStr == [n \in 0..4 |-> <<"0", "1", "2", "3", "4">>[n + 1]]

IsPrefix(s, t) == Len(s) <= Len(t) /\ SubSeq(t, 1, Len(s)) = s

UnderRoot(f) == IsPrefix(directory, f)

Range(s) == {s[i] : i \in DOMAIN s}

\* the kernel's path walk of an absolute path: ".." steps to the parent, a
\* name steps into an existing directory or names the last component
RECURSIVE walk(_, _)
walk(at, rest) ==
    IF rest = <<>> THEN at
    ELSE IF at \notin Dirs THEN ENOENT
    ELSE IF Head(rest) = ".."
         THEN walk(IF at = <<>> THEN at ELSE SubSeq(at, 1, Len(at) - 1), Tail(rest))
         ELSE walk(Append(at, Head(rest)), Tail(rest))

realpath(p) == walk(<<>>, p)

isdir(p) == realpath(p) \in Dirs
isfile(p) == realpath(p) \in Files
canopen(p) == isfile(p) /\ realpath(p) \notin Unreadable

\* ---------------------------------------------------------------- requests
SeqsUpTo(S, n) == UNION {[1..k -> S] : k \in 0..n}

Targets ==
    {[abs |-> a, segs |-> s, slash |-> sl] :
        a \in BOOLEAN, s \in SeqsUpTo(Segments, MaxPathLen), sl \in BOOLEAN}

\* "/" is the only target without segments
WellFormed(t) == t.segs = <<>> => (t.abs /\ t.slash)

\* ims: the request carries If-Modified-Since (and no If-None-Match) with a
\* date not older than the file's modification time
Requests ==
    {[method |-> m, target |-> t, ims |-> c] :
        m \in Methods, t \in {x \in Targets : WellFormed(x)}, c \in BOOLEAN}

NoRequest == [method |-> "NONE", target |-> [abs |-> TRUE, segs |-> <<>>, slash |-> TRUE],
              ims |-> FALSE]
NoResponse == [status |-> 0, headers |-> <<>>, body |-> <<>>]

\* ------------------------------------------------------------ the handler
CORSHeaders ==
    << <<"Access-Control-Allow-Origin", "*">>,
       <<"Access-Control-Allow-Methods", "GET, POST, OPTIONS">>,
       <<"Access-Control-Allow-Headers", "*">> >>

end_headers_dropped(hdrs) == hdrs \o SubSeq(CORSHeaders, 1, 1)

\* CORSRequestHandler.end_headers: the three send_header calls, then the
\* base class flushes the header buffer
end_headers(hdrs) == hdrs \o CORSHeaders

\* BaseHTTPRequestHandler.send_response: status line, Server, Date
send_response(code) == << <<"Server", "SimpleHTTP/0.6">>, <<"Date", "now">> >>

Result(code, hdrs, body, pending, resolved, fault) ==
    [status |-> code, headers |-> hdrs, body |-> body, pending |-> pending,
     resolved |-> resolved, fault |-> fault]

\* BaseHTTPRequestHandler.send_error: the error page is written right after
\* the headers, except for HEAD
send_error(code, method, resolved, fault) ==
    Result(code,
           end_headers(send_response(code) \o
                       << <<"Connection", "close">>,
                          <<"Content-Type", "text/html;charset=utf-8">>,
                          <<"Content-Length", "error page">> >>),
           IF method # "HEAD" THEN <<"error page">> ELSE <<>>,
           <<>>, resolved, fault)

\* posixpath.normpath on the components: ".." pops a component; at the top
\* of an absolute path it is dropped, at the top of a relative one it stays
RECURSIVE normpath(_, _, _)
normpath(abs, comps, acc) ==
    IF comps = <<>> THEN acc
    ELSE LET c == Head(comps) IN
         IF c # ".." \/ (~abs /\ acc = <<>>) \/ (acc # <<>> /\ acc[Len(acc)] = "..")
         THEN normpath(abs, Tail(comps), Append(acc, c))
         ELSE IF acc # <<>>
              THEN normpath(abs, Tail(comps), SubSeq(acc, 1, Len(acc) - 1))
              ELSE normpath(abs, Tail(comps), acc)

\* the loop of translate_path: os.pardir words are skipped, the others joined
RECURSIVE joinwords(_, _)
joinwords(path, words) ==
    IF words = <<>> THEN path
    ELSE IF Head(words) = ".." THEN joinwords(path, Tail(words))
    ELSE joinwords(Append(path, Head(words)), Tail(words))

translate_path_joined(t) == [path |-> directory \o t.segs, slash |-> t.slash]

\* SimpleHTTPRequestHandler.translate_path
translate_path(t) ==
    [path |-> joinwords(directory, normpath(t.abs, t.segs, <<>>)), slash |-> t.slash]

ContentType(p) ==
    IF p = <<>> THEN "application/octet-stream"
    ELSE CASE p[Len(p)] = "index.html" -> "text/html"
           [] p[Len(p)] \in {"secret.txt", "locked.txt"} -> "text/plain"
           [] OTHER -> "application/octet-stream"

\* SimpleHTTPRequestHandler.list_directory
list_directory(p, resolved) ==
    Result(200,
           end_headers(send_response(200) \o
                       << <<"Content-type", "text/html; charset=utf-8">>,
                          <<"Content-Length", "listing">> >>),
           <<>>, <<"listing">>, resolved, "none")

send_file_always200(r, p, slash, resolved) ==
    Result(200, end_headers(send_response(200)), <<>>,
           Content(realpath(p)), resolved, "none")

\* the part of send_head after the directory test: open the file, answer
\* 404 when that fails, 304 when the client's copy is fresh, else 200
send_file(r, p, slash, resolved) ==
    IF slash THEN send_error(404, r.method, resolved, "notfound")
    ELSE IF ~isfile(p) THEN send_error(404, r.method, resolved, "notfound")
    ELSE IF ~canopen(p) THEN send_error(404, r.method, resolved, "denied")
    ELSE IF r.ims
         THEN Result(304, end_headers(send_response(304)), <<>>, <<>>, resolved, "none")
         ELSE Result(200,
                     end_headers(send_response(200) \o
                                 << <<"Content-type", ContentType(p)>>,
                                    <<"Content-Length", LenStr[Len(Content(realpath(p)))]>>,
                                    <<"Last-Modified", "mtime">> >>),
                     <<>>, Content(realpath(p)), resolved, "none")

index_pages == <<"index.html", "index.htm">>

\* SimpleHTTPRequestHandler.send_head; "pending" is the open file it returns
send_head(r) ==
    LET t == translate_path(r.target)
        p == t.path
    IN  IF isdir(p)
        THEN IF ~r.target.slash
             THEN Result(301,
                         end_headers(send_response(301) \o
                                     << <<"Location", "slash added">>,
                                        <<"Content-Length", "0">> >>),
                         <<>>, <<>>, {p}, "none")
             ELSE IF \E i \in DOMAIN index_pages : isfile(Append(p, index_pages[i]))
                  THEN LET i == CHOOSE i \in DOMAIN index_pages :
                                  /\ isfile(Append(p, index_pages[i]))
                                  /\ \A j \in 1..(i - 1) : ~isfile(Append(p, index_pages[j]))
                       IN  send_file(r, Append(p, index_pages[i]), FALSE,
                                     {p, Append(p, index_pages[i])})
                  ELSE list_directory(p, {p})
        ELSE send_file(r, p, t.slash, {p})

\* SimpleHTTPRequestHandler.do_GET: send_head, then copyfile of what it opened
do_GET(r) == send_head(r)

\* SimpleHTTPRequestHandler.do_HEAD: send_head, and the file is closed unread
do_HEAD(r) == [send_head(r) EXCEPT !.pending = <<>>]

do_OPTIONS_resolving(r) == do_HEAD(r)

\* CORSRequestHandler.do_OPTIONS
do_OPTIONS(r) == Result(200, end_headers(send_response(200)), <<>>, <<>>, {}, "none")

\* BaseHTTPRequestHandler.handle_one_request: do_<command> when the handler
\* has it, 501 otherwise
handle_one_request(r) ==
    CASE r.method = "OPTIONS" -> do_OPTIONS(r)
      [] r.method = "GET" -> do_GET(r)
      [] r.method = "HEAD" -> do_HEAD(r)
      [] OTHER -> send_error(501, r.method, {}, "none")

\* ------------------------------------------------------------------ state
VARIABLES
    pc,          \* "starting", "serving", "reading", "copying", "stopping", "exited"
    portBusy,    \* another socket is bound to PORT
    binds,       \* bind() calls made
    everServed,  \* serve_forever was entered
    exitStatus,  \* -1 while the process runs
    isShutDown,  \* the server's __is_shut_down event
    backlog,     \* connections queued on the listening socket
    req,         \* the request of the connection being handled, or the last one
    resp,        \* what has been written to that connection
    pending,     \* chunks of the opened file not yet copied
    resolved,    \* the paths the handler took to the filesystem
    fault,       \* the file error met for this request
    aborted      \* how the handler was cut short: "none", "error", "interrupt"

vars == <<pc, portBusy, binds, everServed, exitStatus, isShutDown, backlog,
          req, resp, pending, resolved, fault, aborted>>

conn == <<req, resp, pending, resolved, fault, aborted>>
proc == <<portBusy, binds, everServed, exitStatus, isShutDown>>

Init ==
    /\ pc = "starting"
    /\ portBusy \in BOOLEAN
    /\ binds = 0
    /\ everServed = FALSE
    /\ exitStatus = -1
    /\ isShutDown = FALSE
    /\ backlog = 0
    /\ req = NoRequest
    /\ resp = NoResponse
    /\ pending = <<>>
    /\ resolved = {}
    /\ fault = "none"
    /\ aborted = "none"

Start_ignoringBindError ==
    /\ pc = "starting"
    /\ binds' = binds + 1
    /\ pc' = "serving"
    /\ everServed' = TRUE
    /\ UNCHANGED <<portBusy, exitStatus, isShutDown, backlog, conn>>

\* socketserver.TCPServer(("", PORT), ...): bind and listen; OSError is not
\* caught, so the process ends with a traceback and status 1.  Otherwise
\* the banner is printed and serve_forever entered.
Start ==
    /\ pc = "starting"
    /\ binds' = binds + 1
    /\ IF portBusy
       THEN /\ pc' = "exited"
            /\ exitStatus' = 1
            /\ UNCHANGED everServed
       ELSE /\ pc' = "serving"
            /\ everServed' = TRUE
            /\ UNCHANGED exitStatus
    /\ UNCHANGED <<portBusy, isShutDown, backlog, conn>>

\* a client connects: the kernel queues it on the listening socket
ClientConnect ==
    /\ pc \in {"serving", "reading", "copying"}
    /\ backlog < MaxBacklog
    /\ backlog' = backlog + 1
    /\ UNCHANGED <<pc, proc, conn>>

\* serve_forever: select reports the socket readable, get_request accepts,
\* and the handler starts reading the request line (no timeout is set)
Accept ==
    /\ pc = "serving"
    /\ backlog > 0
    /\ backlog' = backlog - 1
    /\ pc' = "reading"
    /\ req' = NoRequest
    /\ resp' = NoResponse
    /\ pending' = <<>>
    /\ resolved' = {}
    /\ fault' = "none"
    /\ aborted' = "none"
    /\ UNCHANGED proc

\* the client's request arrives: parse, dispatch, headers (and an error
\* page) are written; a file that was opened is left to copyfile
ReceiveRequest ==
    /\ pc = "reading"
    /\ \E r \in Requests :
           LET h == handle_one_request(r) IN
           /\ req' = r
           /\ resp' = [status |-> h.status, headers |-> h.headers, body |-> h.body]
           /\ pending' = h.pending
           /\ resolved' = h.resolved
           /\ fault' = h.fault
           /\ pc' = IF h.pending = <<>> THEN "serving" ELSE "copying"
    /\ UNCHANGED <<proc, backlog, aborted>>

\* the client closes without sending a request line: the handler returns
ClientClose ==
    /\ pc = "reading"
    /\ pc' = "serving"
    /\ UNCHANGED <<proc, backlog, conn>>

CopyChunk_skipping ==
    /\ pc = "copying"
    /\ pending' = Tail(pending)
    /\ pc' = IF Tail(pending) = <<>> THEN "serving" ELSE "copying"
    /\ UNCHANGED <<proc, backlog, req, resp, resolved, fault, aborted>>

\* copyfile: one read of the file and one write to the socket
CopyChunk ==
    /\ pc = "copying"
    /\ resp' = [resp EXCEPT !.body = Append(@, Head(pending))]
    /\ pending' = Tail(pending)
    /\ pc' = IF Tail(pending) = <<>> THEN "serving" ELSE "copying"
    /\ UNCHANGED <<proc, backlog, req, resolved, fault, aborted>>

\* a read of the opened file fails (OSError) during copyfile: TCPServer's
\* "except Exception" logs it, closes the connection and serves on
ReadError ==
    /\ pc = "copying"
    /\ pending # <<"listing">>    \* a listing is copied from memory
    /\ fault' = "readfail"
    /\ aborted' = "error"
    /\ pc' = "serving"
    /\ UNCHANGED <<proc, backlog, req, resp, pending, resolved>>

\* Ctrl+C: KeyboardInterrupt is raised in the main thread, which is in
\* select or inside the handler; it is not an Exception, so the request is
\* shut down and the interrupt re-raised; serve_forever's finally sets
\* __is_shut_down; the except clause of the script is entered
Interrupt ==
    /\ pc \in {"serving", "reading", "copying"}
    /\ aborted' = IF pc = "serving" THEN aborted ELSE "interrupt"
    /\ isShutDown' = TRUE
    /\ pc' = "stopping"
    /\ UNCHANGED <<portBusy, binds, everServed, exitStatus, backlog,
                   req, resp, pending, resolved, fault>>

\* except KeyboardInterrupt: print, httpd.shutdown() (waits for
\* __is_shut_down), then the with block closes the socket and the script ends
Shutdown ==
    /\ pc = "stopping"
    /\ isShutDown
    /\ pc' = "exited"
    /\ exitStatus' = 0
    /\ backlog' = 0
    /\ UNCHANGED <<portBusy, binds, everServed, isShutDown, conn>>

Next ==
    \/ Start
    \/ ClientConnect
    \/ Accept
    \/ ReceiveRequest
    \/ ClientClose
    \/ CopyChunk
    \/ ReadError
    \/ Interrupt
    \/ Shutdown

Spec == Init /\ [][Next]_vars

\* what the single thread does by itself once enabled; a client sending its
\* request, an interrupt and a read error are not the server's to schedule
FairSpec ==
    /\ Spec
    /\ WF_vars(Start)
    /\ WF_vars(Accept)
    /\ WF_vars(CopyChunk)
    /\ WF_vars(Shutdown)

TypeOK ==
    /\ pc \in {"starting", "serving", "reading", "copying", "stopping", "exited"}
    /\ portBusy \in BOOLEAN
    /\ binds \in 0..1
    /\ exitStatus \in {-1, 0, 1}
    /\ backlog \in 0..MaxBacklog
    /\ req \in Requests \cup {NoRequest}
    /\ fault \in {"none", "notfound", "denied", "readfail"}
    /\ aborted \in {"none", "error", "interrupt"}

\* ----------------------------------------------------------- vocabulary
\* a response to req has been started
Answered == resp.status # 0

\* the handler of req ran to its end
Finished == Answered /\ pc \in {"serving", "stopping", "exited"} /\ aborted = "none"

\* the filesystem path the request target names
Named(r) == translate_path(r.target).path

\* header `name` was sent exactly once, with value `value`
SentOnce(name, value) ==
    /\ Cardinality({i \in DOMAIN resp.headers : resp.headers[i][1] = name}) = 1
    /\ \E i \in DOMAIN resp.headers : resp.headers[i] = <<name, value>>

HasCORS ==
    /\ SentOnce("Access-Control-Allow-Origin", "*")
    /\ SentOnce("Access-Control-Allow-Methods", "GET, POST, OPTIONS")
    /\ SentOnce("Access-Control-Allow-Headers", "*")

\* the chunks that were or are about to be sent to the client
Sent == Range(resp.body) \cup Range(pending)

\* ----------------------------------------------------------------- C1
\* C1: an OPTIONS request, whatever its path and whether or not the path
\* exists, is answered 200 with an empty body and the three CORS headers
\* with exactly their values, and no path is taken to the filesystem.
C1_OptionsPreflight ==
    req.method = "OPTIONS" =>
        /\ resp.status = 200
        /\ resp.body = <<>>
        /\ pending = <<>>
        /\ HasCORS
        /\ resolved = {}
        /\ pc # "copying"

\* OPTIONS for a path with nothing under the root has been answered
C1_Witness ==
    /\ req.method = "OPTIONS"
    /\ req.target.segs = <<"secret.txt">>
    /\ ~isfile(Named(req))
    /\ Finished
    /\ resp.status = 200

\* ----------------------------------------------------------------- C2
\* C2: every response to a non-OPTIONS request, success or error, carries
\* the three CORS headers.
C2_CorsOnEveryResponse ==
    (req.method \in {"GET", "HEAD", "POST"} /\ Answered) => HasCORS

\* a 404 for a missing file went out with the CORS headers
C2_Witness ==
    /\ req.method = "GET"
    /\ resp.status = 404
    /\ fault = "notfound"
    /\ HasCORS

\* ----------------------------------------------------------------- C3
\* C3: after an interrupt while serving, no new connection is accepted, a
\* response that was being written is completed, and the process exits
\* with status 0.
C3_Original ==
    /\ (pc = "exited" /\ everServed) => exitStatus = 0
    /\ pc \in {"stopping", "exited"} =>
           (aborted = "interrupt" /\ Answered => pending = <<>>)

\* ----------------------------------------------------------------- C4
\* C4: with PORT in use the bind fails, the process exits non-zero without
\* ever serving or handling a request, and the bind is made only once.
C4_BindFailureIsFatal ==
    portBusy =>
        /\ pc \in {"starting", "exited"}
        /\ pc = "exited" => exitStatus > 0
        /\ ~everServed
        /\ req = NoRequest /\ resp = NoResponse
        /\ binds <= 1
        /\ binds = 1 => pc = "exited"

\* the process has ended on the failed bind
C4_Witness == portBusy /\ binds = 1 /\ pc = "exited" /\ exitStatus = 1

\* ----------------------------------------------------------------- C5
\* C5 as stated: a GET whose path names an existing file under the root is
\* answered 200 with the file's contents as body.
C5_Original ==
    (/\ req.method = "GET"
     /\ Finished
     /\ ~req.target.slash
     /\ isfile(Named(req))) =>
        /\ resp.status = 200
        /\ resp.body = Content(realpath(Named(req)))

\* C5 as amended: a GET whose path names an existing file under the root
\* that can be opened, without an If-Modified-Since date at or after the
\* file's modification time, is answered 200; what is sent is always a
\* prefix of the file's contents, and all of them once the handler ends.
C5_GetExistingFile ==
    (/\ req.method = "GET"
     /\ ~req.target.slash
     /\ canopen(Named(req))
     /\ ~req.ims) =>
        /\ resp.status = 200
        /\ resp.body \o pending = Content(realpath(Named(req)))
        /\ Finished => resp.body = Content(realpath(Named(req)))

\* GET /index.html has been answered in full
C5_Witness ==
    /\ req.method = "GET"
    /\ req.target = [abs |-> TRUE, segs |-> <<"index.html">>, slash |-> FALSE]
    /\ Finished
    /\ resp.status = 200
    /\ resp.body = <<"<h1>", "Hi", "</h1>">>

\* ----------------------------------------------------------------- C6
\* C6: whatever the request path, parent-directory segments included, no
\* part of a file outside the root directory is sent.
C6_NothingFromOutsideRoot ==
    \A f \in Files : ~UnderRoot(f) => Range(Content(f)) \cap Sent = {}

\* GET /../secret.txt, which names a file next to the root, got 404
C6_Witness ==
    /\ req.method = "GET"
    /\ req.target.segs = <<"..", "secret.txt">>
    /\ isfile(<<"home", "secret.txt">>)
    /\ Finished
    /\ resp.status = 404
    /\ resolved = {<<"home", "app", "secret.txt">>}

\* ----------------------------------------------------------------- C7
\* nothing, file or directory, is at the path the target names
NothingAt(r) == ~r.target.slash /\ ~isfile(Named(r)) /\ ~isdir(Named(r))

C8_Original ==
    fault # "none" =>
        /\ exitStatus # 1
        /\ resp.status >= 400

\* ----------------------------------------------------------------- C9
\* C9: every non-OPTIONS request, HEAD and POST included, gets static-file
\* semantics: 200 with the file's bytes when the path names a readable
\* file, 404 when it names none.  (Read in the claim's favour: requests
\* without If-Modified-Since, paths that are no directory, and for HEAD
\* the status alone.)
C9_Original ==
    (/\ req.method \in {"GET", "HEAD", "POST"}
     /\ Finished
     /\ ~req.ims
     /\ ~req.target.slash
     /\ ~isdir(Named(req))) =>
        IF canopen(Named(req))
        THEN /\ resp.status = 200
             /\ req.method # "HEAD" => resp.body = Content(realpath(Named(req)))
        ELSE resp.status = 404

\* ---------------------------------------------------------------- C10
\* C10: the handling of every accepted connection terminates, so the
\* server is back in its accept loop (or stopped) some time later.
C10_Original ==
    [](pc \in {"reading", "copying"} => <>(pc \in {"serving", "stopping", "exited"}))

=============================================================================
